---- MODULE Spec2Model ----
(***************************************************************************)
(* Model of app.py: the /generate-csv request handler, its nested helpers  *)
(* fetch_mc_data and extract_data, the Selenium scraper scrape_usdot_email *)
(* and the phone normaliser format_phone_number.                           *)
(*                                                                         *)
(* Python strings are sequences of one-character strings, so that lower(), *)
(* the substring test, re.sub, strip and join are computed character by    *)
(* character.  JSON / Python values are tagged records [t, v].             *)
(***************************************************************************)
EXTENDS Integers, Sequences, FiniteSets, TLC

VARIABLES pc, start_mc, end_mc, mc_number, mc_json, carrier_data,
          output_file, debug_files, response, sessions, delays,
          last_fetch, fetchLog, rowLog, scrapeLog, phone_arg, phone_typed, phone_ret,
          user_email, timestamp, steps, last_page,
          other_run, other_file, probe_rec, probe_ret

\* the form field user_email and the clock reading of line 98
formVars == << user_email, timestamp >>

\* the steps taken for the current identifier and the page its scrape met
stepVars == << steps, last_page >>

\* a second request served at the same time, and the file it writes when its
\* file name differs from this run's
otherVars == << other_run, other_file >>

\* a record under extraction on its own
probeVars == << probe_rec, probe_ret >>

vars == << pc, start_mc, end_mc, mc_number, mc_json, carrier_data,
           output_file, debug_files, response, sessions, delays,
           last_fetch, fetchLog, rowLog, scrapeLog, phone_arg, phone_typed, phone_ret,
           user_email, timestamp, steps, last_page,
           other_run, other_file, probe_rec, probe_ret >>

(* ------------------------------ bounds --------------------------------- *)

\* identifiers of a request are drawn from 1..MaxMc (end_mc also from 0)
MaxMc == 3

\* characters typed after the initial phone text in PhoneSpec
MaxTyped == 5

(* ------------------------- string literals ----------------------------- *)

EmptyStr == << >>

UpperCase ==
    <<"A","B","C","D","E","F","G","H","I","J","K","L","M","N","O","P","Q","R","S","T","U","V","W","X","Y","Z">>

LowerCase ==
    <<"a","b","c","d","e","f","g","h","i","j","k","l","m","n","o","p","q","r","s","t","u","v","w","x","y","z">>

Digits ==
    <<"0","1","2","3","4","5","6","7","8","9">>

\* the needle of the filter, app.py line 160
AUTHORIZED_FOR_PROPERTY ==
    <<"a","u","t","h","o","r","i","z","e","d"," ","f","o","r"," ","p","r","o","p","e","r","t","y">>

\* the separator of the three joins, app.py lines 181-183
COMMA_SPACE == <<",", " ">>

\* the country prefix, app.py line 41
PLUS_ONE == <<"+", "1">>

csv_columns ==
    << <<"L","e","g","a","l"," ","N","a","m","e">>,
       <<"U","S","D","O","T"," ","N","u","m","b","e","r">>,
       <<"M","C","/","M","X","/","F","F"," ","N","u","m","b","e","r","s">>,
       <<"E","n","t","i","t","y"," ","T","y","p","e">>,
       <<"A","d","d","r","e","s","s">>,
       <<"P","h","o","n","e">>,
       <<"P","o","w","e","r"," ","U","n","i","t","s">>,
       <<"D","r","i","v","e","r","s">>,
       <<"M","C","S","-","1","5","0"," ","F","o","r","m"," ","D","a","t","e">>,
       <<"M","C","S","-","1","5","0"," ","M","i","l","e","a","g","e">>,
       <<"M","C","S","-","1","5","0"," ","M","i","l","e","a","g","e"," ","Y","e","a","r">>,
       <<"O","u","t"," ","o","f"," ","S","e","r","v","i","c","e"," ","D","a","t","e">>,
       <<"O","p","e","r","a","t","i","n","g"," ","S","t","a","t","u","s">>,
       <<"O","p","e","r","a","t","i","o","n"," ","C","l","a","s","s","i","f","i","c","a","t","i","o","n">>,
       <<"C","a","r","r","i","e","r"," ","O","p","e","r","a","t","i","o","n">>,
       <<"C","a","r","g","o"," ","C","a","r","r","i","e","d">>,
       <<"S","c","r","a","p","e","d"," ","E","m","a","i","l">> >>

(* --------------------------- Python values ----------------------------- *)

None == [t |-> "none", v |-> 0]
PStr(s) == [t |-> "str", v |-> s]
PInt(n) == [t |-> "int", v |-> n]
PList(l) == [t |-> "list", v |-> l]
PDict(d) == [t |-> "dict", v |-> d]

EmptyDict == [k \in {} |-> None]

\* dict.get(key): None when the key is missing, whatever the default
Get_without_default(d, key, default) ==
    IF key \in DOMAIN d THEN d[key] ELSE None

\* dict.get(key, default)
Get(d, key, default) ==
    IF key \in DOMAIN d THEN d[key] ELSE default

\* truth value of a Python object (`if not data`, `if carrier_data`, `if not email`)
Truthy(x) ==
    CASE x.t = "none" -> FALSE
      [] x.t = "int"  -> x.v # 0
      [] x.t = "dict" -> DOMAIN x.v # {}
      [] OTHER        -> Len(x.v) > 0

(* ---------------------------- str methods ------------------------------ *)

IndexOf(seq, c) ==
    IF \E i \in 1..Len(seq) : seq[i] = c
    THEN CHOOSE i \in 1..Len(seq) : seq[i] = c
    ELSE 0

\* one character of str.lower()
LowerChar(c) ==
    IF IndexOf(UpperCase, c) # 0 THEN LowerCase[IndexOf(UpperCase, c)] ELSE c

\* the status text compared as it is, without .lower()
LowerOmitted(s) == s

\* str.lower()
Lower(s) == [i \in 1..Len(s) |-> LowerChar(s[i])]

\* s[i:].startswith(needle), 1-based i
StartsWithAt(s, needle, i) ==
    /\ i + Len(needle) - 1 <= Len(s)
    /\ \A j \in 1..Len(needle) : s[i + j - 1] = needle[j]

RECURSIVE FindFrom(_, _, _)
\* left-to-right scan of `needle in s`; 0 when no offset matches
FindFrom(s, needle, i) ==
    IF i + Len(needle) - 1 > Len(s) THEN 0
    ELSE IF StartsWithAt(s, needle, i) THEN i
    ELSE FindFrom(s, needle, i + 1)

\* needle in s
Contains(s, needle) == FindFrom(s, needle, 1) # 0

IsSpace(c) == c = " "

RECURSIVE LStrip(_)
LStrip(s) ==
    IF Len(s) > 0 /\ IsSpace(Head(s)) THEN LStrip(Tail(s)) ELSE s

RECURSIVE RStrip(_)
RStrip(s) ==
    IF Len(s) > 0 /\ IsSpace(s[Len(s)]) THEN RStrip(SubSeq(s, 1, Len(s) - 1)) ELSE s

\* str.strip()
Strip(s) == RStrip(LStrip(s))

RECURSIVE Join(_, _)
\* sep.join(items)
Join(sep, items) ==
    IF Len(items) = 0 THEN EmptyStr
    ELSE IF Len(items) = 1 THEN items[1]
    ELSE items[1] \o sep \o Join(sep, Tail(items))

RECURSIVE IntStr(_)
\* str(n) of a non-negative int
IntStr(n) ==
    IF n < 10 THEN << Digits[n + 1] >>
    ELSE IntStr(n \div 10) \o << Digits[(n % 10) + 1] >>

(* ------------------------ format_phone_number -------------------------- *)

IsDigit(c) == IndexOf(Digits, c) # 0

RECURSIVE StripNonDigits(_)
\* re.sub(r'\D', '', phone)
StripNonDigits(s) ==
    IF Len(s) = 0 THEN EmptyStr
    ELSE IF IsDigit(Head(s)) THEN << Head(s) >> \o StripNonDigits(Tail(s))
    ELSE StripNonDigits(Tail(s))

\* the length that marks a US number, app.py line 40
US_NUMBER_LEN == 10

\* the test of line 40 written as len(phone) >= 10
format_phone_number_at_least(phone) ==
    IF phone.t # "str" THEN [exc |-> "TypeError", ret |-> None]
    ELSE LET stripped == StripNonDigits(phone.v)
         IN  [exc |-> "",
              ret |-> IF Len(stripped) >= US_NUMBER_LEN
                      THEN PStr(PLUS_ONE \o stripped)
                      ELSE PStr(stripped)]

\* format_phone_number(phone); re.sub raises TypeError on a non-str argument
format_phone_number(phone) ==
    IF phone.t # "str" THEN [exc |-> "TypeError", ret |-> None]
    ELSE LET stripped == StripNonDigits(phone.v)
         IN  [exc |-> "",
              ret |-> IF Len(stripped) = US_NUMBER_LEN
                      THEN PStr(PLUS_ONE \o stripped)
                      ELSE PStr(stripped)]

(* --------------------- sample record-API responses --------------------- *)

StatusUpper ==
    <<"A","U","T","H","O","R","I","Z","E","D"," ","F","O","R"," ","P","R","O","P","E","R","T","Y">>

StatusEmbedded ==
    <<"A","C","T","I","V","E"," ","-"," ","A","u","t","h","o","r","i","z","e","d"," ","F","o","r"," ","P","r","o","p","e","r","t","y",","," ","H","H","G">>

StatusHhg ==
    <<"A","U","T","H","O","R","I","Z","E","D"," ","F","O","R"," ","H","H","G">>

PhoneUs ==
    <<"(","5","5","5",")"," ","1","2","3","-","4","5","6","7">>

RecFull ==
    [ legal_name               |-> PStr(<<"A","C","M","E">>),
      usdot                    |-> PStr(<<"7">>),
      mc_mx_ff_numbers         |-> PStr(<<"M","C","-","1">>),
      entity_type              |-> PStr(<<"C","A","R","R","I","E","R">>),
      physical_address         |-> PStr(<<"1"," ","M","A","I","N">>),
      phone                    |-> PStr(PhoneUs),
      power_units              |-> PInt(1),
      drivers                  |-> PInt(1),
      mcs_150_form_date        |-> PStr(<<"0","1","/","0","2">>),
      mcs_150_mileage_year     |-> PDict([mileage |-> PStr(<<"9","0">>),
                                          year    |-> PStr(<<"2","3">>)]),
      out_of_service_date      |-> PStr(<<"N","o","n","e">>),
      operating_status         |-> PStr(StatusUpper),
      operation_classification |-> PList(<< <<"A">>, <<"B">> >>),
      carrier_operation        |-> PList(<< <<"I">> >>),
      cargo_carried            |-> PList(<< >>) ]

\* a partial record: only the keys the filter and the scraper read
RecPartial ==
    [ usdot            |-> PStr(<<"8">>),
      power_units      |-> PInt(1),
      operating_status |-> PStr(StatusEmbedded) ]

RecTwoUnits == [RecFull EXCEPT !.power_units = PInt(2)]

RecHhg == [RecFull EXCEPT !.operating_status = PStr(StatusHhg)]

\* power_units missing: the default 0 applies
RecNoUnits ==
    [ usdot            |-> PStr(<<"8">>),
      operating_status |-> PStr(StatusUpper) ]

\* operating_status missing: the default '' applies
RecNoStatus ==
    [ usdot       |-> PStr(<<"8">>),
      power_units |-> PInt(1) ]

\* power_units sent as the text "1"
RecStrUnits == [RecFull EXCEPT !.power_units = PStr(<<"1">>)]

\* JSON null where a string is expected
RecNullStatus == [RecFull EXCEPT !.operating_status = None]

RecNullPhone == [RecFull EXCEPT !.phone = None]

\* the values response.json() can return
Bodies ==
    << PDict(RecFull), PDict(RecPartial), PDict(RecTwoUnits), PDict(RecHhg),
       PDict(RecNoUnits), PDict(RecNoStatus), PDict(RecStrUnits),
       PDict(RecNullStatus), PDict(RecNullPhone),
       PDict(EmptyDict), PList(<< <<"x">> >>), None >>

(* ---------------------------- fetch_mc_data ---------------------------- *)

\* what one requests.get can meet: a transport error, or a status code with a
\* body that parses to Bodies[body] (body = 0: the body is not JSON)
FetchOutcomes ==
    << [transport |-> "ConnectionError", status |-> 0,   body |-> 0],
       [transport |-> "Timeout",         status |-> 0,   body |-> 0],
       [transport |-> "ok",              status |-> 404, body |-> 0],
       [transport |-> "ok",              status |-> 500, body |-> 1],
       [transport |-> "ok",              status |-> 200, body |-> 0],
       [transport |-> "ok",              status |-> 304, body |-> 0] >>
    \o [i \in 1..Len(Bodies) |-> [transport |-> "ok", status |-> 200, body |-> i]]
    \o << [transport |-> "ok",           status |-> 300, body |-> 1] >>

\* the handler written as `except requests.ConnectionError`: it catches
\* connection failures and timeouts only
ConnectionErrorOnly ==
    {"ConnectionError", "Timeout"}

\* the classes `except requests.RequestException` catches (requests.exceptions:
\* ConnectionError, Timeout, HTTPError and, since requests 2.27, JSONDecodeError
\* all derive from RequestException)
RequestException ==
    {"RequestException", "ConnectionError", "Timeout", "HTTPError", "JSONDecodeError"}

\* the body of the try block, lines 133-139: the exception it raises ("" if none)
\* and the value it returns
fetch_try(o) ==
    IF o.transport # "ok" THEN [exc |-> o.transport, ret |-> None]
    ELSE IF o.status >= 400 /\ o.status < 600 THEN [exc |-> "HTTPError", ret |-> None]
    ELSE IF o.body = 0 THEN [exc |-> "JSONDecodeError", ret |-> None]
    ELSE [exc |-> "", ret |-> Bodies[o.body]]

\* fetch_mc_data(mc_number) when the request meets outcome o
fetch_mc_data(o) ==
    LET r == fetch_try(o)
    IN  IF r.exc \in RequestException THEN [exc |-> "", ret |-> None] ELSE r

(* -------------------------- scrape_usdot_email ------------------------- *)

EmailFound == <<"a","@","b",".","c">>

\* the rendered registration page as the three lookups of lines 57-65 see it:
\* is an "email" label present, has it a parent <li>, has the <li> a
\* class="dat" element, and that element's text
\* `listed` is what the code never looks at: the value next to the exact label
\* "Email:" inside the registration list container (EmptyStr if there is none).
\* On page 8 the first label of the document that holds "email" is outside any
\* <li>, while the list container has the address; on page 9 the label of the
\* list reads otherwise ("Contact Email") and only the page-wide match finds it
Pages ==
    << [label |-> FALSE, li |-> FALSE, dat |-> FALSE, text |-> EmptyStr, listed |-> EmptyStr],
       [label |-> TRUE,  li |-> FALSE, dat |-> FALSE, text |-> EmptyStr, listed |-> EmptyStr],
       [label |-> TRUE,  li |-> TRUE,  dat |-> FALSE, text |-> EmptyStr, listed |-> EmptyStr],
       [label |-> TRUE,  li |-> TRUE,  dat |-> TRUE,  text |-> EmptyStr, listed |-> EmptyStr],
       [label |-> TRUE,  li |-> TRUE,  dat |-> TRUE,  text |-> <<" ">>, listed |-> EmptyStr],
       [label |-> TRUE,  li |-> TRUE,  dat |-> TRUE,  text |-> EmailFound, listed |-> EmailFound],
       [label |-> TRUE,  li |-> TRUE,  dat |-> TRUE,  text |-> <<" ">> \o EmailFound,
        listed |-> EmailFound],
       [label |-> TRUE,  li |-> FALSE, dat |-> FALSE, text |-> EmptyStr, listed |-> EmailFound],
       [label |-> TRUE,  li |-> TRUE,  dat |-> TRUE,  text |-> EmailFound, listed |-> EmptyStr] >>

\* what one scrape can meet: get_driver() succeeds or raises, driver.get(url)
\* succeeds or raises, the page it renders, and whether the diagnostic
\* artifacts (page source, screenshot) can be written
ScrapeScenarios ==
    { [driver |-> FALSE, nav |-> FALSE, page |-> 1, art |-> TRUE],
      [driver |-> TRUE,  nav |-> FALSE, page |-> 1, art |-> TRUE] }
    \cup [driver : {TRUE}, nav : {TRUE}, page : 1..Len(Pages), art : BOOLEAN]

\* the try block, lines 56-71
scrape_try(sc) ==
    LET page  == Pages[sc.page]
        email == Strip(page.text)
    IN  IF ~page.label THEN [exc |-> "TimeoutException", ret |-> None, artifact |-> FALSE]
        ELSE IF ~page.li \/ ~page.dat
             THEN [exc |-> "NoSuchElementException", ret |-> None, artifact |-> FALSE]
        ELSE IF ~Truthy(PStr(email))
             THEN IF sc.art
                  THEN [exc |-> "", ret |-> PStr(email), artifact |-> TRUE]
                  ELSE [exc |-> "OSError", ret |-> None, artifact |-> FALSE]
        ELSE [exc |-> "", ret |-> PStr(email), artifact |-> FALSE]

\* the handler `except Exception`, lines 73-79
scrape_except(sc) ==
    IF sc.art
    THEN [exc |-> "", ret |-> PStr(EmptyStr), artifact |-> TRUE]
    ELSE [exc |-> "OSError", ret |-> None, artifact |-> FALSE]

\* scrape_usdot_email(usdot) when the scrape meets scenario sc: the exception
\* that leaves the function ("" if none), the value returned, what became of
\* the browser session ("none": never created, "quit", "open": left running)
\* and whether debug_usdot_<usdot> artifacts were written
scrape_usdot_email(sc) ==
    IF ~sc.driver
    THEN [exc |-> "WebDriverException", ret |-> None, session |-> "none", artifact |-> FALSE]
    ELSE IF ~sc.nav
    THEN [exc |-> "WebDriverException", ret |-> None, session |-> "open", artifact |-> FALSE]
    ELSE LET t == scrape_try(sc)
             r == IF t.exc # "" THEN scrape_except(sc) ELSE t
         IN  [exc |-> r.exc, ret |-> r.ret, session |-> "quit", artifact |-> r.artifact]

(* ----------------------------- extract_data ---------------------------- *)

\* the filter of line 160 without its power_units test
qualifies_by_status(power_units, operating_status) ==
    Contains(operating_status, AUTHORIZED_FOR_PROPERTY)

\* the filter of line 160 on the values of lines 156-157
qualifies(power_units, operating_status) ==
    /\ power_units.t = "int"
    /\ power_units.v = 1
    /\ Contains(operating_status, AUTHORIZED_FOR_PROPERTY)

\* ', '.join(data.get(key, [])): TypeError unless the value is a list
join_field(data, key) ==
    LET val == Get(data, key, PList(<< >>))
    IN  IF val.t = "list"
        THEN [exc |-> "", ret |-> PStr(Join(COMMA_SPACE, val.v))]
        ELSE [exc |-> "TypeError", ret |-> None]

\* the dict of lines 167-185, given the scraped email
collect_fields(data, power_units, scraped_email) ==
    LET mileage_info == Get(data, "mcs_150_mileage_year", PDict(EmptyDict))
        phone  == format_phone_number(Get(data, "phone", PStr(EmptyStr)))
        opcl   == join_field(data, "operation_classification")
        carrop == join_field(data, "carrier_operation")
        cargo  == join_field(data, "cargo_carried")
    IN  IF mileage_info.t # "dict" THEN [exc |-> "AttributeError", ret |-> None]
        ELSE IF phone.exc # "" THEN [exc |-> phone.exc, ret |-> None]
        ELSE IF opcl.exc # "" THEN [exc |-> opcl.exc, ret |-> None]
        ELSE IF carrop.exc # "" THEN [exc |-> carrop.exc, ret |-> None]
        ELSE IF cargo.exc # "" THEN [exc |-> cargo.exc, ret |-> None]
        ELSE [exc |-> "",
              ret |-> PDict(
                [ legal_name               |-> Get(data, "legal_name", PStr(EmptyStr)),
                  usdot                    |-> Get(data, "usdot", PStr(EmptyStr)),
                  mc_mx_ff_numbers         |-> Get(data, "mc_mx_ff_numbers", PStr(EmptyStr)),
                  entity_type              |-> Get(data, "entity_type", PStr(EmptyStr)),
                  address                  |-> Get(data, "physical_address", PStr(EmptyStr)),
                  phone                    |-> phone.ret,
                  power_units              |-> power_units,
                  drivers                  |-> Get(data, "drivers", PStr(EmptyStr)),
                  mcs_150_form_date        |-> Get(data, "mcs_150_form_date", PStr(EmptyStr)),
                  mcs_150_mileage          |-> Get(mileage_info.v, "mileage", PStr(EmptyStr)),
                  mcs_150_mileage_year     |-> Get(mileage_info.v, "year", PStr(EmptyStr)),
                  out_of_service_date      |-> Get(data, "out_of_service_date", PStr(EmptyStr)),
                  operating_status         |-> Get(data, "operating_status", PStr(EmptyStr)),
                  operation_classification |-> opcl.ret,
                  carrier_operation        |-> carrop.ret,
                  cargo_carried            |-> cargo.ret,
                  scraped_email            |-> scraped_email ])]

NoScrape == [exc |-> "", ret |-> None, session |-> "none", artifact |-> FALSE]

\* lines 161-185 with the fields collected before the scraper is called
extract_qualified_collect_first(data, power_units, sc) ==
    LET c == collect_fields(data, power_units, PStr(EmptyStr))
        s == scrape_usdot_email(sc)
    IN  IF c.exc # ""
        THEN [exc |-> c.exc, ret |-> None, scraped |-> FALSE, scrape |-> NoScrape,
              steps |-> << "filter", "normalize" >>]
        ELSE IF s.exc # ""
        THEN [exc |-> s.exc, ret |-> None, scraped |-> TRUE, scrape |-> s,
              steps |-> << "filter", "normalize", "scrape" >>]
        ELSE [exc |-> "", ret |-> PDict([c.ret.v EXCEPT !.scraped_email = s.ret]),
              scraped |-> TRUE, scrape |-> s,
              steps |-> << "filter", "normalize", "scrape", "assemble" >>]

\* lines 161-185, the branch of a record that passed the filter: the scraper
\* is called (line 163), then the fields are normalised and collected into
\* the dict (lines 166-185)
extract_qualified(data, power_units, sc) ==
    LET s == scrape_usdot_email(sc)
        c == collect_fields(data, power_units, s.ret)
    IN  IF s.exc # ""
        THEN [exc |-> s.exc, ret |-> None, scraped |-> TRUE, scrape |-> s,
              steps |-> << "filter", "scrape" >>]
        ELSE IF c.exc # ""
        THEN [exc |-> c.exc, ret |-> None, scraped |-> TRUE, scrape |-> s,
              steps |-> << "filter", "scrape", "normalize" >>]
        ELSE [exc |-> "", ret |-> c.ret, scraped |-> TRUE, scrape |-> s,
              steps |-> << "filter", "scrape", "normalize", "assemble" >>]

\* extract_data(mc_number, data) when a scrape, if one is made, meets scenario
\* sc: the exception that leaves the function ("" if none), the value
\* returned, whether the scraper was called, what the scraper did, and the
\* steps taken in their order
extract_data(data, sc) ==
    IF ~Truthy(data)
    THEN [exc |-> "", ret |-> None, scraped |-> FALSE, scrape |-> NoScrape, steps |-> << >>]
    ELSE IF data.t # "dict"
    THEN [exc |-> "AttributeError", ret |-> None, scraped |-> FALSE, scrape |-> NoScrape,
          steps |-> << >>]
    ELSE
    LET power_units == Get(data.v, "power_units", PInt(0))
        status      == Get(data.v, "operating_status", PStr(EmptyStr))
    IN  IF status.t # "str"
        THEN [exc |-> "AttributeError", ret |-> None, scraped |-> FALSE, scrape |-> NoScrape,
              steps |-> << >>]
        ELSE IF ~qualifies(power_units, Lower(status.v))
        THEN [exc |-> "", ret |-> None, scraped |-> FALSE, scrape |-> NoScrape,
              steps |-> << "filter" >>]
        ELSE extract_qualified(data.v, power_units, sc)

(* ------------------------------ csv.writer ----------------------------- *)

\* the text csv.writer puts in a cell: '' for None, str(value) otherwise
CsvCell(x) ==
    CASE x.t = "none" -> EmptyStr
      [] x.t = "int"  -> IntStr(x.v)
      [] OTHER        -> x.v

\* the list of lines 198-216, as written
row_cells(d) ==
    << CsvCell(d.legal_name), CsvCell(d.usdot), CsvCell(d.mc_mx_ff_numbers),
       CsvCell(d.entity_type), CsvCell(d.address), CsvCell(d.phone),
       CsvCell(d.power_units), CsvCell(d.drivers), CsvCell(d.mcs_150_form_date),
       CsvCell(d.mcs_150_mileage), CsvCell(d.mcs_150_mileage_year),
       CsvCell(d.out_of_service_date), CsvCell(d.operating_status),
       CsvCell(d.operation_classification), CsvCell(d.carrier_operation),
       CsvCell(d.cargo_carried), CsvCell(d.scraped_email) >>

\* open(path, 'w') followed by writerow(row): the file is created or truncated
open_w_writerow(file, row) == [exists |-> TRUE, lines |-> << row >>]

\* the row written with mode 'w' instead of 'a'
open_a_truncating(file, row) == [exists |-> TRUE, lines |-> << row >>]

\* the row written over the data rows already in the file, the header kept
open_a_rewriting(file, row) ==
    [exists |-> TRUE,
     lines |-> (IF file.exists /\ file.lines # << >> THEN << Head(file.lines) >> ELSE << >>)
                  \o << row >>]

\* open(path, 'a') followed by writerow(row): the file is created if missing
open_a_writerow(file, row) ==
    [exists |-> TRUE, lines |-> (IF file.exists THEN file.lines ELSE << >>) \o << row >>]

\* os.path.exists(output_csv_file) and the two returns of lines 221-224
respond(file) ==
    IF file.exists
    THEN [status |-> 200, body |-> "attachment"]
    ELSE [status |-> 400, body |-> "No valid data found matching the criteria."]

\* what Flask answers when the view function raises
ServerError == [status |-> 500, body |-> "Internal Server Error"]

NoResponse == [status |-> 0, body |-> ""]

NoFile == [exists |-> FALSE, lines |-> << >>]

(* ------------------------------- the run ------------------------------- *)

\* no page rendered: no email within reach of either way of looking for it
NoPage == [a |-> EmptyStr, b |-> EmptyStr]

\* no record parsed yet for the extraction on its own
NoProbe == [orig |-> 0, missing |-> {}]

\* the second request before it arrives
OtherIdle == [pc |-> "idle", timestamp |-> 0, rows |-> 0]

Idle ==
    /\ pc = "idle"
    /\ start_mc = 0 /\ end_mc = 0 /\ mc_number = 0
    /\ mc_json = None /\ carrier_data = None
    /\ output_file = NoFile
    /\ debug_files = {}
    /\ response = NoResponse
    /\ sessions = 0 /\ delays = 0
    /\ last_fetch = 0
    /\ fetchLog = << >> /\ rowLog = << >> /\ scrapeLog = << >>
    /\ user_email = None /\ timestamp = 0
    /\ steps = << >> /\ last_page = NoPage
    /\ other_run = OtherIdle /\ other_file = NoFile
    /\ probe_rec = NoProbe /\ probe_ret = None

Init ==
    /\ Idle
    /\ phone_arg = EmptyStr /\ phone_typed = 0 /\ phone_ret = None

\* the loop written as do ... while: its body runs for start_mc whatever end_mc
loop_enter_at_least_once(s, e) == [pc |-> "fetch", mc |-> s]

\* the first identifier of range(start_mc, end_mc + 1), or the end of the loop
loop_enter(s, e) ==
    IF s <= e THEN [pc |-> "fetch", mc |-> s] ELSE [pc |-> "respond", mc |-> 0]

\* the next identifier of range(start_mc, end_mc + 1), or the end of the loop
loop_next(mc, e) ==
    IF mc + 1 <= e THEN [pc |-> "fetch", mc |-> mc + 1] ELSE [pc |-> "respond", mc |-> mc]

\* POST /generate-csv with the form fields start_mc = s, end_mc = e and
\* user_email = email (None: not sent), the clock reading ts: lines 95-125 and
\* the entry of the loop, line 190.  Only start_mc and end_mc are read from
\* the form.  The clock does not run backwards: ts is not before the reading
\* of a request that arrived earlier
Request(s, e, ts, email) ==
    /\ pc = "idle"
    /\ ts >= other_run.timestamp
    /\ start_mc' = s
    /\ end_mc' = e
    /\ user_email' = email
    /\ timestamp' = ts
    /\ output_file' = open_w_writerow(output_file, csv_columns)
    /\ pc' = loop_enter(s, e).pc
    /\ mc_number' = loop_enter(s, e).mc
    /\ UNCHANGED << mc_json, carrier_data, debug_files, response, sessions, delays,
                    last_fetch, fetchLog, rowLog, scrapeLog, phone_arg, phone_typed, phone_ret,
                    stepVars, otherVars, probeVars >>

(* what an observer of the record API sees of one response, stated without
   the program's own operators: the response carries a record with
   power_units 1 whose status text holds the phrase in some letter case *)

SameLetter(a, b) ==
    \/ a = b
    \/ \E k \in 1..Len(UpperCase) : {a, b} \subseteq {UpperCase[k], LowerCase[k]}

PhraseAt(s, i) ==
    /\ i + Len(AUTHORIZED_FOR_PROPERTY) - 1 <= Len(s)
    /\ \A j \in 1..Len(AUTHORIZED_FOR_PROPERTY) :
          SameLetter(s[i + j - 1], AUTHORIZED_FOR_PROPERTY[j])

RecordQualifies(data) ==
    /\ data.t = "dict"
    /\ "power_units" \in DOMAIN data.v
    /\ data.v.power_units.t = "int"
    /\ data.v.power_units.v = 1
    /\ "operating_status" \in DOMAIN data.v
    /\ data.v.operating_status.t = "str"
    /\ \E i \in 1..Len(data.v.operating_status.v) : PhraseAt(data.v.operating_status.v, i)

\* line 191: mc_json = fetch_mc_data(mc_number), the request meeting FetchOutcomes[o]
Fetch(o) ==
    /\ pc = "fetch"
    /\ LET r == fetch_mc_data(FetchOutcomes[o])
       IN  /\ last_fetch' = o
           /\ steps' = << "fetch" >>
           /\ fetchLog' = Append(fetchLog, [mc |-> mc_number,
                                            qualifies |-> RecordQualifies(r.ret)])
           /\ IF r.exc # ""
              THEN /\ pc' = "done"
                   /\ response' = ServerError
                   /\ UNCHANGED mc_json
              ELSE /\ pc' = "extract"
                   /\ mc_json' = r.ret
                   /\ UNCHANGED response
    /\ UNCHANGED << start_mc, end_mc, mc_number, carrier_data, output_file, debug_files,
                    sessions, delays, rowLog, scrapeLog, phone_arg, phone_typed, phone_ret,
                    formVars, last_page, otherVars, probeVars >>

\* str(usdot) inside the f-string of the artifact names, lines 68-78
FStr(x) == IF x.t = "none" THEN <<"N","o","n","e">> ELSE CsvCell(x)

\* the address within reach of the exact-label scan of the list container (a)
\* and of the page-wide label match with its sibling value (b), on the page a
\* scrape rendered
page_reach(s, sc) ==
    IF s.session # "quit" THEN NoPage
    ELSE LET page == Pages[sc.page]
         IN  [a |-> page.listed,
              b |-> IF page.label /\ page.li /\ page.dat THEN Strip(page.text) ELSE EmptyStr]

\* line 192: carrier_data = extract_data(mc_number, mc_json), the scrape (if the
\* record qualifies) meeting scenario sc
Extract(sc) ==
    /\ pc = "extract"
    /\ LET e == extract_data(mc_json, sc)
           usdot == FStr(Get(mc_json.v, "usdot", PStr(EmptyStr)))
       IN  /\ sessions' = IF e.scrape.session = "open" THEN sessions + 1 ELSE sessions
           /\ steps' = steps \o e.steps
           /\ last_page' = page_reach(e.scrape, sc)
           /\ debug_files' = IF e.scrape.artifact THEN debug_files \cup {usdot} ELSE debug_files
           /\ scrapeLog' = IF e.scraped
                           THEN Append(scrapeLog, [mc |-> mc_number, exc |-> e.scrape.exc,
                                                   ret |-> e.scrape.ret,
                                                   session |-> e.scrape.session])
                           ELSE scrapeLog
           /\ IF e.exc # ""
              THEN /\ pc' = "done"
                   /\ response' = ServerError
                   /\ UNCHANGED carrier_data
              ELSE /\ pc' = "write"
                   /\ carrier_data' = e.ret
                   /\ UNCHANGED response
    /\ UNCHANGED << start_mc, end_mc, mc_number, mc_json, output_file, delays,
                    last_fetch, fetchLog, rowLog, phone_arg, phone_typed, phone_ret,
                    formVars, otherVars, probeVars >>

\* lines 194-216: if carrier_data, append its row to the file
WriteRow ==
    /\ pc = "write"
    /\ IF Truthy(carrier_data)
       THEN /\ output_file' = open_a_writerow(output_file, row_cells(carrier_data.v))
            /\ rowLog' = Append(rowLog, mc_number)
            /\ steps' = Append(steps, "append")
       ELSE UNCHANGED << output_file, rowLog, steps >>
    /\ pc' = "sleep"
    /\ UNCHANGED << start_mc, end_mc, mc_number, mc_json, carrier_data, debug_files,
                    response, sessions, delays, last_fetch, fetchLog, scrapeLog,
                    phone_arg, phone_typed, phone_ret,
                    formVars, last_page, otherVars, probeVars >>

\* the loop pausing only after an identifier that produced a row
Sleep_only_after_row ==
    /\ pc = "sleep"
    /\ delays' = IF Truthy(carrier_data) THEN delays + 1 ELSE delays
    /\ pc' = loop_next(mc_number, end_mc).pc
    /\ mc_number' = loop_next(mc_number, end_mc).mc
    /\ steps' = << >>
    /\ last_page' = NoPage
    /\ UNCHANGED << start_mc, end_mc, mc_json, carrier_data, output_file, debug_files,
                    response, sessions, last_fetch, fetchLog, rowLog, scrapeLog,
                    phone_arg, phone_typed, phone_ret,
                    formVars, otherVars, probeVars >>

\* line 218, time.sleep(5), and the step of the loop, line 190
Sleep ==
    /\ pc = "sleep"
    /\ delays' = delays + 1
    /\ pc' = loop_next(mc_number, end_mc).pc
    /\ mc_number' = loop_next(mc_number, end_mc).mc
    /\ steps' = << >>
    /\ last_page' = NoPage
    /\ UNCHANGED << start_mc, end_mc, mc_json, carrier_data, output_file, debug_files,
                    response, sessions, last_fetch, fetchLog, rowLog, scrapeLog,
                    phone_arg, phone_typed, phone_ret,
                    formVars, otherVars, probeVars >>

\* lines 220-224: the response after the loop
Respond ==
    /\ pc = "respond"
    /\ response' = respond(output_file)
    /\ pc' = "done"
    /\ UNCHANGED << start_mc, end_mc, mc_number, mc_json, carrier_data, output_file,
                    debug_files, sessions, delays, last_fetch, fetchLog, rowLog, scrapeLog,
                    phone_arg, phone_typed, phone_ret,
                    formVars, stepVars, otherVars, probeVars >>

Next ==
    \/ \E s \in 1..MaxMc, e \in 0..MaxMc : Request(s, e, 1, None)
    \/ \E o \in 1..Len(FetchOutcomes) : Fetch(o)
    \/ \E sc \in ScrapeScenarios : Extract(sc)
    \/ WriteRow
    \/ Sleep
    \/ Respond

Spec == Init /\ [][Next]_vars

(* --------------- the run, with the user_email form field --------------- *)

\* the values of the form field user_email: not sent, and an address
UserEmails == { None, PStr(EmailFound) }

DeliveryNext ==
    \/ \E s \in 1..MaxMc, e \in 0..MaxMc, email \in UserEmails : Request(s, e, 1, email)
    \/ \E o \in 1..Len(FetchOutcomes) : Fetch(o)
    \/ \E sc \in ScrapeScenarios : Extract(sc)
    \/ WriteRow
    \/ Sleep
    \/ Respond

DeliverySpec == Init /\ [][DeliveryNext]_vars

(* ------------------- two requests served at one time ------------------- *)

\* the readings of the clock, in whole seconds (strftime('%Y%m%d_%H%M%S'))
MaxClock == 2

Clock == 1..MaxClock

\* the record API answers of the runs below: no answer, and the full record
ConcOutcomes ==
    { o \in 1..Len(FetchOutcomes) :
         \/ FetchOutcomes[o].transport = "ConnectionError"
         \/ (FetchOutcomes[o].status = 200 /\ FetchOutcomes[o].body = 1) }

\* the scrapes of the runs below: the page that shows the address
ConcScenarios ==
    { sc \in ScrapeScenarios :
         sc.driver /\ sc.nav /\ sc.art /\ Pages[sc.page].text = EmailFound
                   /\ Pages[sc.page].listed = EmailFound }

\* both requests have computed their file name, and it is the same name:
\* output_<timestamp>.csv with the same reading of the clock
OtherShares == pc # "idle" /\ other_run.pc # "idle" /\ timestamp = other_run.timestamp

\* the file the second request writes to
OtherFile == IF OtherShares THEN output_file ELSE other_file

\* a row the second request appends
OtherRow == row_cells(collect_fields(RecFull, PInt(1), PStr(EmailFound)).ret.v)

\* the second POST /generate-csv, the clock reading ts: lines 98-125
OtherRequest(ts) ==
    /\ other_run.pc = "idle"
    /\ ts >= timestamp
    /\ other_run' = [pc |-> "loop", timestamp |-> ts, rows |-> 0]
    /\ IF pc # "idle" /\ ts = timestamp
       THEN /\ output_file' = open_w_writerow(output_file, csv_columns)
            /\ UNCHANGED other_file
       ELSE /\ other_file' = open_w_writerow(other_file, csv_columns)
            /\ UNCHANGED output_file
    /\ UNCHANGED << pc, start_mc, end_mc, mc_number, mc_json, carrier_data, debug_files,
                    response, sessions, delays, last_fetch, fetchLog, rowLog, scrapeLog,
                    phone_arg, phone_typed, phone_ret, formVars, stepVars, probeVars >>

\* the second request appends a row, lines 194-216
OtherWriteRow ==
    /\ other_run.pc = "loop"
    /\ other_run.rows < MaxMc
    /\ other_run' = [other_run EXCEPT !.rows = @ + 1]
    /\ IF OtherShares
       THEN /\ output_file' = open_a_writerow(output_file, OtherRow)
            /\ UNCHANGED other_file
       ELSE /\ other_file' = open_a_writerow(other_file, OtherRow)
            /\ UNCHANGED output_file
    /\ UNCHANGED << pc, start_mc, end_mc, mc_number, mc_json, carrier_data, debug_files,
                    response, sessions, delays, last_fetch, fetchLog, rowLog, scrapeLog,
                    phone_arg, phone_typed, phone_ret, formVars, stepVars, probeVars >>

\* the second request leaves its loop and answers, lines 220-224
OtherRespond ==
    /\ other_run.pc = "loop"
    /\ other_run' = [other_run EXCEPT !.pc = "done"]
    /\ UNCHANGED << pc, start_mc, end_mc, mc_number, mc_json, carrier_data, output_file,
                    debug_files, response, sessions, delays, last_fetch, fetchLog, rowLog,
                    scrapeLog, phone_arg, phone_typed, phone_ret, formVars, stepVars,
                    other_file, probeVars >>

ConcNext ==
    \/ \E s \in 1..MaxMc, e \in 0..MaxMc, ts \in Clock : Request(s, e, ts, None)
    \/ \E o \in ConcOutcomes : Fetch(o)
    \/ \E sc \in ConcScenarios : Extract(sc)
    \/ WriteRow
    \/ Sleep
    \/ Respond
    \/ \E ts \in Clock : OtherRequest(ts)
    \/ OtherWriteRow
    \/ OtherRespond

ConcSpec == Init /\ [][ConcNext]_vars

(* --------------- extract_data on records with keys missing ------------- *)

\* how many keys of a parsed record are taken away
MaxDropped == 3

\* the parsed records the keys are taken from
ProbeRecords == << RecFull, RecPartial >>

\* the record of the probe: ProbeRecords[orig] without the keys in `missing`
ProbeData ==
    LET rec == ProbeRecords[probe_rec.orig]
    IN  [k \in (DOMAIN rec) \ probe_rec.missing |-> rec[k]]

\* response.json() returned ProbeRecords[i]
ProbeParse(i) ==
    /\ pc = "idle"
    /\ probe_rec = NoProbe
    /\ probe_rec' = [orig |-> i, missing |-> {}]
    /\ UNCHANGED << pc, start_mc, end_mc, mc_number, mc_json, carrier_data, output_file,
                    debug_files, response, sessions, delays, last_fetch, fetchLog, rowLog,
                    scrapeLog, phone_arg, phone_typed, phone_ret, formVars, stepVars,
                    otherVars, probe_ret >>

\* the same record, had the API left out key k as well
DropKey(k) ==
    /\ probe_rec.orig # 0
    /\ probe_ret.t = "none"
    /\ Cardinality(probe_rec.missing) < MaxDropped
    /\ k \in (DOMAIN ProbeRecords[probe_rec.orig]) \ probe_rec.missing
    /\ probe_rec' = [probe_rec EXCEPT !.missing = @ \cup {k}]
    /\ UNCHANGED << pc, start_mc, end_mc, mc_number, mc_json, carrier_data, output_file,
                    debug_files, response, sessions, delays, last_fetch, fetchLog, rowLog,
                    scrapeLog, phone_arg, phone_typed, phone_ret, formVars, stepVars,
                    otherVars, probe_ret >>

\* extract_data(mc_number, data) on the record of the probe, lines 144-187,
\* the scrape (if the record qualifies) meeting scenario sc
ProbeExtract(sc) ==
    /\ probe_rec.orig # 0
    /\ probe_ret.t = "none"
    /\ LET e == extract_data(PDict(ProbeData), sc)
       IN  probe_ret' = PDict([exc |-> e.exc, ret |-> e.ret, scraped |-> e.scraped,
                               scrape_exc |-> e.scrape.exc])
    /\ UNCHANGED << pc, start_mc, end_mc, mc_number, mc_json, carrier_data, output_file,
                    debug_files, response, sessions, delays, last_fetch, fetchLog, rowLog,
                    scrapeLog, phone_arg, phone_typed, phone_ret, formVars, stepVars,
                    otherVars, probe_rec >>

KeysNext ==
    \/ \E i \in 1..Len(ProbeRecords) : ProbeParse(i)
    \/ \E k \in DOMAIN RecFull : DropKey(k)
    \/ \E sc \in ScrapeScenarios : ProbeExtract(sc)

KeysSpec == Init /\ [][KeysNext]_vars

(* ------------------- format_phone_number on its own -------------------- *)

\* the characters typed after the initial text
PhoneAlphabet == {"4", "5", "6", "7", "-"}

\* the initial texts: nothing, and "(555) 123-" with six digits in it
PhonePrefixes == { EmptyStr, SubSeq(PhoneUs, 1, 10) }

PhoneInit ==
    /\ Idle
    /\ phone_arg \in PhonePrefixes
    /\ phone_typed = 0
    /\ phone_ret = None

\* one more character of the phone text
PhoneType(c) ==
    /\ phone_typed < MaxTyped
    /\ phone_arg' = Append(phone_arg, c)
    /\ phone_typed' = phone_typed + 1
    /\ phone_ret' = None
    /\ UNCHANGED << pc, start_mc, end_mc, mc_number, mc_json, carrier_data,
                    output_file, debug_files, response, sessions, delays,
                    last_fetch, fetchLog, rowLog, scrapeLog,
                    formVars, stepVars, otherVars, probeVars >>

\* line 173: format_phone_number(data.get('phone', '')) on a record that has
\* the phone text under its key, or has no such key
PhoneCall(present) ==
    /\ phone_ret = None
    /\ LET data == IF present THEN [phone |-> PStr(phone_arg)] ELSE EmptyDict
           arg  == Get(data, "phone", PStr(EmptyStr))
           r    == format_phone_number(arg)
       IN  phone_ret' = PDict([arg |-> arg, exc |-> r.exc, ret |-> r.ret])
    /\ UNCHANGED << pc, start_mc, end_mc, mc_number, mc_json, carrier_data,
                    output_file, debug_files, response, sessions, delays,
                    last_fetch, fetchLog, rowLog, scrapeLog, phone_arg, phone_typed,
                    formVars, stepVars, otherVars, probeVars >>

PhoneNext ==
    \/ \E c \in PhoneAlphabet : PhoneType(c)
    \/ \E present \in BOOLEAN : PhoneCall(present)

PhoneSpec == PhoneInit /\ [][PhoneNext]_vars

(* ======================= properties of the run ========================= *)

\* the identifiers fetched so far, in the order of the fetches
Visited == [k \in 1..Len(fetchLog) |-> fetchLog[k].mc]

\* the identifiers of range(start_mc, end_mc + 1), in order
RangeSeq == [k \in 1..(IF end_mc >= start_mc THEN end_mc - start_mc + 1 ELSE 0)
                |-> start_mc + k - 1]

RowSources == {rowLog[k] : k \in 1..Len(rowLog)}

DataRows == IF output_file.exists THEN Len(output_file.lines) - 1 ELSE 0

Finished == pc = "done"

\* C1: a run that processed its range and wrote no data row answers 400 with
\* the "no data" text, and leaves no output file behind
C1_ZeroRowsIsNoData ==
    (Finished /\ response.status # 500 /\ Len(fetchLog) > 0 /\ rowLog = << >>)
        => (response.status = 400 /\ ~output_file.exists)

\* C2: the run ends only by range exhaustion: when it has ended, every
\* identifier of the range has been fetched, whatever happened to the others
C2_LoopSurvivesEveryFailure ==
    Finished => \A i \in start_mc..end_mc : \E k \in 1..Len(fetchLog) : fetchLog[k].mc = i

\* the fetch of the current identifier has been made and its outcome is o
FetchedCurrent == last_fetch # 0 /\ pc \in {"extract", "write", "sleep", "respond", "done"}

LastOutcome == FetchOutcomes[last_fetch]

\* a failed lookup as the claim words it: transport failure, timeout, any
\* status outside 200..299, or a body that is not JSON
NonSuccess(o) ==
    o.transport # "ok" \/ o.status \notin 200..299 \/ o.body = 0

\* a failed lookup with "non-2xx" narrowed to the client and server error
\* statuses 400..599
ErrorOutcome(o) ==
    o.transport # "ok" \/ o.status \in 400..599 \/ o.body = 0

\* what must hold of the run when the fetch of the current identifier met o
\* and o counts as a failure: nothing was raised into the loop, the fetch
\* returned None, no row was written for the identifier, and the loop moved on
AbsentAfter(failed) ==
    /\ (FetchedCurrent /\ failed)
         => /\ mc_json = None
            /\ response.status # 500
            /\ pc \in {"write", "sleep", "respond", "done"} => carrier_data = None
            /\ mc_number \notin RowSources
    /\ (pc = "fetch" /\ last_fetch # 0 /\ failed)
         => /\ mc_number - 1 \notin RowSources
            /\ Visited = SubSeq(RangeSeq, 1, mc_number - start_mc)

C4_ScrapeNeverRaises ==
    \A k \in 1..Len(scrapeLog) : scrapeLog[k].exc = "" /\ scrapeLog[k].ret.t = "str"

\* C5: once the run has ended, every identifier whose fetched record passed
\* the filter has its row in the file, whatever its scrape did
C5_QualifyingRecordHasRow ==
    Finished => \A k \in 1..Len(fetchLog) :
                    fetchLog[k].qualifies => fetchLog[k].mc \in RowSources

ScrapedCurrent == \E k \in 1..Len(scrapeLog) : scrapeLog[k].mc = mc_number

\* a line of the file that a record passing the filter can have produced:
\* its power-units cell reads 1 and its status cell holds the phrase
QualifyingLine(line) ==
    /\ line[7] = << "1" >>
    /\ \E i \in 1..Len(line[13]) : PhraseAt(line[13], i)

\* C6: every data row of the file comes from one identifier of the range whose
\* record was present and passed the filter, no identifier has two rows, and
\* the rows never outnumber the identifiers fetched so far that passed
C6_RowsAreQualifyingRecords ==
    /\ DataRows = Len(rowLog)
    /\ \A k \in 1..Len(rowLog) :
          /\ rowLog[k] \in start_mc..end_mc
          /\ \E j \in 1..Len(fetchLog) : fetchLog[j].mc = rowLog[k] /\ fetchLog[j].qualifies
          /\ \A k2 \in 1..Len(rowLog) : k2 # k => rowLog[k2] # rowLog[k]
          /\ QualifyingLine(output_file.lines[k + 1])
    /\ DataRows <= Cardinality({j \in 1..Len(fetchLog) : fetchLog[j].qualifies})

\* C6 witness: three identifiers fetched, one of them without a row, two rows
C6_Witness ==
    /\ Finished
    /\ response.status = 200
    /\ Len(fetchLog) = 3
    /\ DataRows = 2
    /\ \E j \in 1..Len(fetchLog) : ~fetchLog[j].qualifies

\* the number of columns of the header, lines 102-120
ColumnCount == 17

\* C7: the file, once it exists, starts with the 17-column header; no later
\* line is the header; every data row has 17 cells, laid out in the header's
\* order; and no data row is written before the header
C7_HeaderOnceAndFirst ==
    /\ Len(csv_columns) = ColumnCount
    /\ ~output_file.exists => (pc = "idle" /\ rowLog = << >>)
    /\ output_file.exists =>
          /\ Len(output_file.lines) >= 1
          /\ output_file.lines[1] = csv_columns
          /\ \A i \in 2..Len(output_file.lines) :
                /\ output_file.lines[i] # csv_columns
                /\ Len(output_file.lines[i]) = ColumnCount
    /\ (pc = "sleep" /\ mc_number \in RowSources) =>
          LET line == output_file.lines[Len(output_file.lines)]
          IN  /\ line[2] = CsvCell(Get(mc_json.v, "usdot", PStr(EmptyStr)))
              /\ line[7] = << "1" >>
              /\ line[13] = mc_json.v.operating_status.v
              /\ line[17] = scrapeLog[Len(scrapeLog)].ret.v

\* C7 witness: the header followed by two data rows
C7_Witness ==
    /\ output_file.exists
    /\ Len(output_file.lines) = 3
    /\ pc = "sleep"

\* C8: the scraper is called for the current identifier, and a row dict is
\* returned for it, exactly when its record is present, has power_units 1 and
\* a status text that holds the phrase in some letter case
C8_FilterDecision ==
    /\ (Len(fetchLog) > 0 /\ pc \in {"write", "sleep", "respond", "done"})
          => (ScrapedCurrent <=> RecordQualifies(mc_json))
    /\ pc = "write" => (Truthy(carrier_data) <=> RecordQualifies(mc_json))

\* C8 witness: a row dict returned for a record whose status text is in mixed
\* case with the phrase inside it
C8_Witness ==
    /\ pc = "write"
    /\ Truthy(carrier_data)
    /\ mc_json.v.operating_status.v = StatusEmbedded

\* C9: once the run has ended the identifiers fetched are exactly
\* start_mc, start_mc + 1, ..., end_mc in that order, and the rows of the file
\* are in ascending order of their identifier
C9_WholeRangeAscending ==
    /\ Finished => Visited = RangeSeq
    /\ \A k \in 1..Len(rowLog) : \A k2 \in 1..Len(rowLog) : k < k2 => rowLog[k] < rowLog[k2]

(* ================ properties of format_phone_number ==================== *)

IsDecimal(c) == c \in {"0", "1", "2", "3", "4", "5", "6", "7", "8", "9"}

C11_EmailDeliveryVariant ==
    (Finished /\ user_email.t = "str" /\ response.status # 500)
        => (response.body # "attachment" /\ ~output_file.exists)


(* ========================= the browser session ========================= *)

\* C12: every call of scrape_usdot_email that created a browser session has
\* quit it when control leaves the function, however it leaves: no session
\* is left open at any point of a run
C12_SessionQuitOnEveryExit ==
    /\ sessions = 0
    /\ \A k \in 1..Len(scrapeLog) : scrapeLog[k].session # "open"


(* ============================== the delay ============================== *)

\* C13: the delay follows every processed identifier, whatever became of its
\* record: when identifier number k+1 is about to be fetched exactly k delays
\* have occurred (one between any two consecutive fetches), while an
\* identifier is being processed its own delay is still to come, and a run
\* that completed its loop has made as many delays as its range has
\* identifiers
C13_OneDelayPerIdentifier ==
    /\ pc = "fetch" => delays = Len(fetchLog)
    /\ pc \in {"extract", "write", "sleep"} => delays = Len(fetchLog) - 1
    /\ (pc = "respond" \/ (Finished /\ response.status # 500))
          => (delays = Len(RangeSeq) /\ Len(fetchLog) = Len(RangeSeq))

\* a completed run over three identifiers of which one got a row: three delays
C13_Witness ==
    /\ Finished
    /\ response.status = 200
    /\ Len(fetchLog) = 3
    /\ Len(rowLog) = 1
    /\ delays = 3


(* ===================== the steps of one identifier ===================== *)

IsPrefix(s, t) == Len(s) <= Len(t) /\ SubSeq(t, 1, Len(s)) = s

\* the order with the normalization of the fields ahead of the scrape
NormalizeThenScrape == << "fetch", "filter", "normalize", "scrape", "assemble", "append" >>

\* the order with the scrape ahead of the normalization of the fields
ScrapeThenNormalize == << "fetch", "filter", "scrape", "normalize", "assemble", "append" >>

\* the number of calls of scrape_usdot_email made for identifier m
ScrapesOf(m) == Cardinality({ j \in 1..Len(scrapeLog) : scrapeLog[j].mc = m })

\* identifier number k of the run is past its extraction
Extracted(k) == k < Len(fetchLog) \/ pc # "extract"

\* the scrape is invoked once for an identifier whose record qualifies, and
\* never for one whose record is absent or fails the filter
ScrapeOncePerQualifying ==
    \A k \in 1..Len(fetchLog) :
        ScrapesOf(fetchLog[k].mc) = IF fetchLog[k].qualifies /\ Extracted(k) THEN 1 ELSE 0

FullyProcessed(k) ==
    k < Len(fetchLog) \/ pc \in {"sleep", "respond"} \/ (Finished /\ response.status # 500)

\* the file holds the header and the row of every qualifying identifier that
\* has been fully processed, and nothing but the header and the rows appended
ProgressOnDisk ==
    pc # "idle" =>
        /\ output_file.exists
        /\ output_file.lines[1] = csv_columns
        /\ DataRows = Len(rowLog)
        /\ \A k \in 1..Len(fetchLog) :
              (FullyProcessed(k) /\ fetchLog[k].qualifies) => fetchLog[k].mc \in RowSources

\* C15: after every step of a run the file holds the header and the row of
\* every qualifying identifier fully processed so far, and a step leaves the
\* lines already in the file as they were, adding at most one row after them
C15_PartialProgressPreserved ==
    [][ /\ ProgressOnDisk'
        /\ output_file.exists =>
              /\ output_file'.exists
              /\ IsPrefix(output_file.lines, output_file'.lines)
              /\ Len(output_file'.lines) <= Len(output_file.lines) + 1 ]_vars

\* a run interrupted before its third fetch holds the rows of both
\* identifiers processed so far
C15_Witness ==
    /\ pc = "fetch"
    /\ Len(fetchLog) = 2
    /\ Len(rowLog) = 2
    /\ Len(output_file.lines) = 3


(* ========================== overlapping runs =========================== *)

\* both requests are between their header write and their response
Overlapping == pc \notin {"idle", "done"} /\ other_run.pc = "loop"

\* C16: while two runs overlap they write to files of different names, and
\* each file holds the header and the rows of its own run: no header write
\* has removed a row of the other run and no file holds rows of both
C16_OverlappingRunsDistinctFiles ==
    Overlapping =>
        /\ timestamp # other_run.timestamp
        /\ DataRows = Len(rowLog)
        /\ Len(OtherFile.lines) = other_run.rows + 1


(* ============================ missing keys ============================= *)

\* the scalar keys copied into the row, the key read for the address included
ScalarKeys ==
    { "legal_name", "usdot", "mc_mx_ff_numbers", "entity_type", "physical_address",
      "phone", "drivers", "mcs_150_form_date", "out_of_service_date" }

ListKeys == { "operation_classification", "carrier_operation", "cargo_carried" }

\* the key of the returned dict that holds the value read under key k
OutKey(k) == IF k = "physical_address" THEN "address" ELSE k

IsEmptyStr(x) == x.t = "str" /\ x.v = EmptyStr

ScrapeReturned == pc \in {"write", "sleep"} /\ Len(steps) >= 3 /\ steps[3] = "scrape"

\* C18: a scrape that returned gives the address found by the exact-label
\* scan of the list container if there is one, and otherwise the address
\* found by the page-wide label match, so an address within reach of either
\* is returned
C18_BothStrategiesInFallbackOrder ==
    ScrapeReturned =>
        LET s == scrapeLog[Len(scrapeLog)]
        IN  /\ s.ret.t = "str"
            /\ s.ret.v = (IF last_page.a # EmptyStr THEN last_page.a ELSE last_page.b)


(* ======================= the life of one run =========================== *)

\* max(0, end_mc - start_mc + 1)
RangeSize == IF end_mc - start_mc + 1 > 0 THEN end_mc - start_mc + 1 ELSE 0

\* C19: a run goes from idle through its loop to its end; no identifier is
\* fetched twice, and a run that has ended has answered the caller after
\* exactly max(0, end_mc - start_mc + 1) iterations of the loop, each with
\* its fetch and its delay
C19_RunCompletesItsRange ==
    /\ \A j, k \in 1..Len(fetchLog) : fetchLog[j].mc = fetchLog[k].mc => j = k
    /\ Finished =>
          /\ response # NoResponse
          /\ Len(fetchLog) = RangeSize
          /\ delays = RangeSize


(* ========================== the empty range ============================ *)

====
